---------------------------- MODULE Spec2Model ----------------------------
(***************************************************************************)
(* A model of common/optimizer.py: the eight optimizer classes SGD,        *)
(* Momentum, Nesterov, AdaGrad, RMSprop, Adam, SDprop and Adastand, each   *)
(* with its constructor and its update(params, grads) method.              *)
(*                                                                         *)
(* Numbers.  The source computes in IEEE-754 binary64 (Python floats and   *)
(* numpy arrays).  The model computes in a decimal floating-point format   *)
(* of Digits significant digits with round-half-even, signed infinities    *)
(* and NaN, so that rounding, absorption (x + 1e-7 = x), division by zero  *)
(* (inf or nan, as numpy gives, not an exception) and 0 * inf = nan all    *)
(* happen as they do in the source, at a smaller precision.                *)
(*                                                                         *)
(* Tensors.  Every operation of the source is elementwise, so a tensor is  *)
(* modelled by one element.                                                *)
(*                                                                         *)
(* Dicts.  A Python dict is a record [ks, at]: ks the keys in insertion    *)
(* order (the order `for key in params.keys()` visits them), at the        *)
(* mapping.  None is <<>> and a dict-valued attribute d is <<d>>.          *)
(***************************************************************************)
EXTENDS Integers, Sequences, FiniteSets, TLC

\* Significant decimal digits of the modelled floating-point format.
Digits == 3

\* Most update calls made on one instance in a behaviour.
MaxCalls == 2

VARIABLES
    pair,       \* TRUE: two instances, built and driven alike; FALSE: one
    opt,        \* opt[i]: the optimizer instance i, [cls |-> "none"] before __init__
    made,       \* made[i]: None, or Some(instance i as __init__ left it)
    tensors,    \* tensors[i][key]: caller i's parameter tensor for key
    argParams,  \* argParams[i]: the params dict of i's last update call, as the call left it
    argGrads,   \* argGrads[i]: the grads dict of i's last update call, as the call left it
    last,       \* last[i]: the last update call: status, its arguments and self before it
    ncalls,     \* ncalls[i]: update calls made on instance i
    traj,       \* traj[i]: the caller's tensors after each update call
    feed        \* the inputs of the update calls, by call number

vars == <<pair, opt, made, tensors, argParams, argGrads, last, ncalls, traj, feed>>

---------------------------------------------------------------------------
(* Floating point *)

RECURSIVE Pow10(_)
Pow10(n) == IF n <= 0 THEN 1 ELSE 10 * Pow10(n - 1)

Abs(x) == IF x < 0 THEN -x ELSE x
Sgn(x) == IF x < 0 THEN -1 ELSE 1

NaN == [k |-> "nan", e |-> 0, m |-> 0]
Inf(s) == [k |-> "inf", e |-> 0, m |-> s]
Zero == [k |-> "fin", e |-> 0, m |-> 0]

IsNaN(a) == a.k = "nan"
IsInf(a) == a.k = "inf"
IsFin(a) == a.k = "fin"
IsZero(a) == a.k = "fin" /\ a.m = 0

\* Largest and smallest decimal exponents of a binary64 (about 1.8e308, 4.9e-324).
MaxExp10 == 308
MinExp10 == -324

\* Number of decimal digits of n > 0.
RECURSIVE NDigits(_)
NDigits(n) == IF n < 10 THEN 1 ELSE 1 + NDigits(n \div 10)

\* n (>= 0) divided by 10^k, rounded half to even; sticky says that digits
\* below n were already dropped (so an apparent tie is above the half).
RoundDiv(n, k, sticky) ==
    IF k <= 0 THEN n
    ELSE LET p == Pow10(k)
             q == n \div p
             r == n % p
             h == p \div 2
         IN  IF r > h \/ (r = h /\ (sticky \/ q % 2 = 1)) THEN q + 1 ELSE q

\* The float nearest to m * 10^e (m any integer), overflowing to an infinity
\* and underflowing to zero.
Round(m, e, sticky) ==
    IF m = 0 THEN Zero
    ELSE LET a  == Abs(m)
             nd == NDigits(a)
             k  == nd - Digits
             q0 == IF k > 0 THEN RoundDiv(a, k, sticky) ELSE a * Pow10(-k)
             up == q0 >= Pow10(Digits)
             q  == IF up THEN q0 \div 10 ELSE q0
             ee == IF up THEN e + k + 1 ELSE e + k
         IN  IF ee + Digits - 1 > MaxExp10 THEN Inf(Sgn(m))
             ELSE IF ee + Digits - 1 < MinExp10 THEN Zero
             ELSE [k |-> "fin", e |-> ee, m |-> Sgn(m) * q]

\* The float literal m * 10^e.
F(m, e) == Round(m, e, FALSE)

One == F(1, 0)
Two == F(2, 0)

Neg(a) == IF IsNaN(a) THEN NaN ELSE [a EXCEPT !.m = -a.m]

Add(a, b) ==
    IF IsNaN(a) \/ IsNaN(b) THEN NaN
    ELSE IF IsInf(a) /\ IsInf(b) THEN (IF a.m = b.m THEN a ELSE NaN)
    ELSE IF IsInf(a) THEN a
    ELSE IF IsInf(b) THEN b
    ELSE IF a.m = 0 THEN b
    ELSE IF b.m = 0 THEN a
    ELSE LET hi == IF a.e >= b.e THEN a ELSE b
             lo == IF a.e >= b.e THEN b ELSE a
             d  == hi.e - lo.e
         IN  IF d > Digits + 1 THEN hi
             ELSE Round(hi.m * Pow10(d) + lo.m, lo.e, FALSE)

Sub(a, b) == Add(a, Neg(b))

Mul(a, b) ==
    IF IsNaN(a) \/ IsNaN(b) THEN NaN
    ELSE IF IsInf(a) \/ IsInf(b)
         THEN (IF IsZero(a) \/ IsZero(b) THEN NaN ELSE Inf(Sgn(a.m) * Sgn(b.m)))
    ELSE Round(a.m * b.m, a.e + b.e, FALSE)

\* numpy division: x/0 is an infinity and 0/0 is nan (a warning, no exception).
Div(a, b) ==
    IF IsNaN(a) \/ IsNaN(b) THEN NaN
    ELSE IF IsInf(a) THEN (IF IsInf(b) THEN NaN ELSE Inf(Sgn(a.m) * Sgn(b.m)))
    ELSE IF IsInf(b) THEN Zero
    ELSE IF b.m = 0 THEN (IF a.m = 0 THEN NaN ELSE Inf(Sgn(a.m)))
    ELSE IF a.m = 0 THEN Zero
    ELSE LET n == Abs(a.m) * Pow10(Digits + 1)
             d == Abs(b.m)
             q == n \div d
             r == n % d
         IN  Round(Sgn(a.m) * Sgn(b.m) * q, a.e - b.e - (Digits + 1), r # 0)

\* floor(sqrt(n)) by bisection: lo*lo <= n < hi*hi.
RECURSIVE ISqrtIn(_, _, _)
ISqrtIn(n, lo, hi) ==
    IF hi - lo <= 1 THEN lo
    ELSE LET mid == (lo + hi) \div 2
         IN  IF mid * mid <= n THEN ISqrtIn(n, mid, hi) ELSE ISqrtIn(n, lo, mid)

ISqrt(n) == ISqrtIn(n, 0, Pow10(Digits) + 1)

\* np.sqrt: nan for a negative number (a warning, no exception).
Sqrt(a) ==
    IF IsNaN(a) THEN NaN
    ELSE IF IsInf(a) THEN (IF a.m > 0 THEN a ELSE NaN)
    ELSE IF a.m = 0 THEN Zero
    ELSE IF a.m < 0 THEN NaN
    ELSE LET j == IF (a.e - (Digits - 1)) % 2 = 0 THEN Digits - 1 ELSE Digits
             n == a.m * Pow10(j)
             q == ISqrt(n)
             r == n - q * q
         IN  Round(IF r > q THEN q + 1 ELSE q, (a.e - j) \div 2, FALSE)

\* x ** n for a counter n >= 0.
RECURSIVE Pow(_, _)
Pow(x, n) == IF n = 0 THEN One ELSE Mul(Pow(x, n - 1), x)

Sq(x) == Mul(x, x)

---------------------------------------------------------------------------
(* Python values *)

None == <<>>
Some(d) == <<d>>

EmptyDict == [ks |-> <<>>, at |-> <<>>]
Has(d, key) == key \in DOMAIN d.at

\* np.zeros_like(val) for every (key, val) of params, in params' order.
ZerosLike(params) ==
    [ks |-> params.ks, at |-> [key \in DOMAIN params.at |-> Zero]]

\* The literal 1e-7 of AdaGrad, RMSprop and Adam, and the 1e-8 of SDprop.
Eps7 == F(1, -7)
Eps8 == F(1, -8)

---------------------------------------------------------------------------
(* The state of one update call: self, the two dicts the caller passed, the *)
(* exception raised so far ("" for none), the counter value lr_t was        *)
(* computed from (-1: no lr_t), and the keys whose parameter was written,   *)
(* each with that counter value.                                            *)

Enter(self, params, grads) ==
    [self |-> self, params |-> params, grads |-> grads, exc |-> "",
     t |-> -1, lr_t |-> NaN, stepped |-> <<>>]

Raise(st) == [st EXCEPT !.exc = "KeyError"]

Stepped(st, key) ==
    [st EXCEPT !.stepped = Append(@, [key |-> key, t |-> st.t])]

---------------------------------------------------------------------------
(* SGD *)

SGD_new(lr) == [cls |-> "SGD", lr |-> lr]

\* SGD_step with the step computed into the caller's gradient tensor.
SGD_step_scales_grads(st, key) ==
    IF ~Has(st.grads, key) THEN Raise(st)
    ELSE LET s1 == [st EXCEPT !.grads.at[key] = Mul(st.self.lr, @)]
         IN  Stepped([s1 EXCEPT !.params.at[key] = Sub(@, s1.grads.at[key])], key)

SGD_step(st, key) ==
    IF ~Has(st.grads, key) THEN Raise(st)
    ELSE Stepped([st EXCEPT !.params.at[key] =
                     Sub(@, Mul(st.self.lr, st.grads.at[key]))], key)

---------------------------------------------------------------------------
(* Momentum *)

Momentum_new(lr, momentum) ==
    [cls |-> "Momentum", lr |-> lr, momentum |-> momentum, v |-> None]

\* Momentum_lazy with the velocities created anew on every call.
Momentum_lazy_every_call(self, params) ==
    [self EXCEPT !.v = Some(ZerosLike(params))]

\* Momentum_lazy with one velocity dict for the class: an instance whose v
\* is unset takes the dict another instance has created.
Momentum_lazy_shared(self, params) ==
    IF self.v # None THEN self
    ELSE IF \E j \in DOMAIN opt : opt[j].cls = "Momentum" /\ opt[j].v # None
         THEN [self EXCEPT !.v =
                  opt[CHOOSE j \in DOMAIN opt :
                          opt[j].cls = "Momentum" /\ opt[j].v # None].v]
         ELSE [self EXCEPT !.v = Some(ZerosLike(params))]

Momentum_lazy(self, params) ==
    IF self.v = None THEN [self EXCEPT !.v = Some(ZerosLike(params))] ELSE self

Momentum_step(st, key) ==
    IF ~Has(st.self.v[1], key) \/ ~Has(st.grads, key) THEN Raise(st)
    ELSE LET v1 == Sub(Mul(st.self.momentum, st.self.v[1].at[key]),
                       Mul(st.self.lr, st.grads.at[key]))
             s1 == [st EXCEPT !.self.v[1].at[key] = v1]
         IN  Stepped([s1 EXCEPT !.params.at[key] = Add(@, v1)], key)

---------------------------------------------------------------------------
(* Nesterov *)

Nesterov_new(lr, momentum) ==
    [cls |-> "Nesterov", lr |-> lr, momentum |-> momentum, v |-> None]

Nesterov_lazy(self, params) ==
    IF self.v = None THEN [self EXCEPT !.v = Some(ZerosLike(params))] ELSE self

Nesterov_step(st, key) ==
    IF ~Has(st.self.v[1], key) THEN Raise(st)
    ELSE LET s1 == [st EXCEPT !.self.v[1].at[key] = Mul(@, st.self.momentum)]
         IN  IF ~Has(s1.grads, key) THEN Raise(s1)
             ELSE LET g  == s1.grads.at[key]
                      s2 == [s1 EXCEPT !.self.v[1].at[key] =
                                Sub(@, Mul(s1.self.lr, g))]
                      s3 == [s2 EXCEPT !.params.at[key] =
                                Add(@, Mul(Mul(s2.self.momentum, s2.self.momentum),
                                           s2.self.v[1].at[key]))]
                  IN  Stepped([s3 EXCEPT !.params.at[key] =
                                  Sub(@, Mul(Mul(Add(One, s3.self.momentum),
                                                 s3.self.lr), g))], key)

---------------------------------------------------------------------------
(* AdaGrad *)

AdaGrad_new(lr) == [cls |-> "AdaGrad", lr |-> lr, h |-> None]

AdaGrad_lazy(self, params) ==
    IF self.h = None THEN [self EXCEPT !.h = Some(ZerosLike(params))] ELSE self

AdaGrad_step(st, key) ==
    IF ~Has(st.self.h[1], key) \/ ~Has(st.grads, key) THEN Raise(st)
    ELSE LET g  == st.grads.at[key]
             s1 == [st EXCEPT !.self.h[1].at[key] = Add(@, Mul(g, g))]
         IN  Stepped([s1 EXCEPT !.params.at[key] =
                         Sub(@, Div(Mul(s1.self.lr, g),
                                    Add(Sqrt(s1.self.h[1].at[key]), Eps7)))], key)

---------------------------------------------------------------------------
(* RMSprop *)

RMSprop_new(lr, decay_rate) ==
    [cls |-> "RMSprop", lr |-> lr, decay_rate |-> decay_rate, h |-> None]

RMSprop_lazy(self, params) ==
    IF self.h = None THEN [self EXCEPT !.h = Some(ZerosLike(params))] ELSE self

RMSprop_step(st, key) ==
    IF ~Has(st.self.h[1], key) THEN Raise(st)
    ELSE LET s1 == [st EXCEPT !.self.h[1].at[key] = Mul(@, st.self.decay_rate)]
         IN  IF ~Has(s1.grads, key) THEN Raise(s1)
             ELSE LET g  == s1.grads.at[key]
                      s2 == [s1 EXCEPT !.self.h[1].at[key] =
                                Add(@, Mul(Mul(Sub(One, s1.self.decay_rate), g), g))]
                  IN  Stepped([s2 EXCEPT !.params.at[key] =
                                  Sub(@, Div(Mul(s2.self.lr, g),
                                             Add(Sqrt(s2.self.h[1].at[key]), Eps7)))],
                              key)

---------------------------------------------------------------------------
(* Adam *)

Adam_new(lr, beta1, beta2) ==
    [cls |-> "Adam", lr |-> lr, beta1 |-> beta1, beta2 |-> beta2,
     iter |-> 0, m |-> None, v |-> None]

Adam_lazy(self, params) ==
    IF self.m = None
    THEN [self EXCEPT !.m = Some(ZerosLike(params)), !.v = Some(ZerosLike(params))]
    ELSE self

\* Adam_tick with the counter advanced once per key.
Adam_tick_per_key(self) == [self EXCEPT !.iter = @ + Len(self.m[1].ks)]

\* self.iter += 1
Adam_tick(self) == [self EXCEPT !.iter = @ + 1]

\* lr_t = self.lr * np.sqrt(1.0 - self.beta2**self.iter) / (1.0 - self.beta1**self.iter)
Adam_lr_t(self) ==
    Div(Mul(self.lr, Sqrt(Sub(One, Pow(self.beta2, self.iter)))),
        Sub(One, Pow(self.beta1, self.iter)))

Adam_step(st, key) ==
    IF ~Has(st.self.m[1], key) \/ ~Has(st.grads, key) THEN Raise(st)
    ELSE LET g  == st.grads.at[key]
             s1 == [st EXCEPT !.self.m[1].at[key] =
                       Add(@, Mul(Sub(One, st.self.beta1), Sub(g, @)))]
         IN  IF ~Has(s1.self.v[1], key) THEN Raise(s1)
             ELSE LET s2 == [s1 EXCEPT !.self.v[1].at[key] =
                                Add(@, Mul(Sub(One, s1.self.beta2), Sub(Sq(g), @)))]
                  IN  Stepped([s2 EXCEPT !.params.at[key] =
                                  Sub(@, Div(Mul(s2.lr_t, s2.self.m[1].at[key]),
                                             Add(Sqrt(s2.self.v[1].at[key]), Eps7)))],
                              key)

---------------------------------------------------------------------------
(* SDprop *)

SDprop_new(lr, gamma, bias_correction) ==
    [cls |-> "SDprop", lr |-> lr, gamma |-> gamma, bs |-> bias_correction,
     m |-> None, c |-> None, iter |-> 0]

SDprop_lazy(self, params) ==
    IF self.m = None
    THEN [self EXCEPT !.m = Some(ZerosLike(params)), !.c = Some(ZerosLike(params))]
    ELSE self

\* if self.bs is True: self.iter += 1
SDprop_tick(self) == IF self.bs = TRUE THEN [self EXCEPT !.iter = @ + 1] ELSE self

\* lr_t = self.lr * np.sqrt(1.0 - self.gamma**self.iter)
SDprop_lr_t(self) == Mul(self.lr, Sqrt(Sub(One, Pow(self.gamma, self.iter))))

\* self.c[key] *= gamma; self.c[key] += gamma * (1 - gamma) * (grad - m)**2
SDprop_c(st, key) ==
    IF ~Has(st.self.c[1], key) THEN Raise(st)
    ELSE LET s1 == [st EXCEPT !.self.c[1].at[key] = Mul(@, st.self.gamma)]
         IN  IF ~Has(s1.grads, key) \/ ~Has(s1.self.m[1], key) THEN Raise(s1)
             ELSE [s1 EXCEPT !.self.c[1].at[key] =
                      Add(@, Mul(Mul(s1.self.gamma, Sub(One, s1.self.gamma)),
                                 Sq(Sub(s1.grads.at[key], s1.self.m[1].at[key]))))]

\* self.m[key] *= gamma; self.m[key] += (1 - gamma) * grad
SDprop_m(st, key) ==
    LET s1 == [st EXCEPT !.self.m[1].at[key] = Mul(@, st.self.gamma)]
    IN  [s1 EXCEPT !.self.m[1].at[key] =
            Add(@, Mul(Sub(One, s1.self.gamma), s1.grads.at[key]))]

\* params[key] -= (lr_t or self.lr) * grad / (np.sqrt(self.c[key]) + 1e-8)
SDprop_p(st, key) ==
    LET rate == IF st.self.bs = TRUE THEN st.lr_t ELSE st.self.lr
    IN  Stepped([st EXCEPT !.params.at[key] =
                    Sub(@, Div(Mul(rate, st.grads.at[key]),
                               Add(Sqrt(st.self.c[1].at[key]), Eps8)))], key)

\* SDprop_step with the mean updated before the covariance estimate reads it.
SDprop_step_m_first(st, key) ==
    IF ~Has(st.self.c[1], key) \/ ~Has(st.grads, key) \/ ~Has(st.self.m[1], key)
    THEN SDprop_c(st, key)
    ELSE SDprop_p(SDprop_c(SDprop_m(st, key), key), key)

SDprop_step(st, key) ==
    LET s1 == SDprop_c(st, key)
    IN  IF s1.exc # "" THEN s1 ELSE SDprop_p(SDprop_m(s1, key), key)

---------------------------------------------------------------------------
(* Adastand *)

Adastand_new(lr, beta1, beta2, epsilon) ==
    [cls |-> "Adastand", lr |-> lr, beta1 |-> beta1, beta2 |-> beta2,
     epsilon |-> epsilon, iter |-> 0, m |-> None, v |-> None]

Adastand_lazy(self, params) ==
    IF self.m = None
    THEN [self EXCEPT !.m = Some(ZerosLike(params)), !.v = Some(ZerosLike(params))]
    ELSE self

\* self.iter += 1
Adastand_tick(self) == [self EXCEPT !.iter = @ + 1]

Adastand_lr_t(self) ==
    Div(Mul(self.lr, Sqrt(Sub(One, Pow(self.beta2, self.iter)))),
        Sub(One, Pow(self.beta1, self.iter)))

Adastand_step(st, key) ==
    IF ~Has(st.self.v[1], key) \/ ~Has(st.grads, key) \/ ~Has(st.self.m[1], key)
    THEN Raise(st)
    ELSE LET g  == st.grads.at[key]
             s1 == [st EXCEPT !.self.v[1].at[key] =
                       Add(@, Mul(Sub(One, st.self.beta2),
                                  Sub(Mul(st.self.beta2,
                                          Sq(Sub(g, st.self.m[1].at[key]))), @)))]
             s2 == [s1 EXCEPT !.self.m[1].at[key] =
                       Add(@, Mul(Sub(One, s1.self.beta1), Sub(g, Mul(Two, @))))]
         IN  Stepped([s2 EXCEPT !.params.at[key] =
                         Sub(@, Div(Mul(s2.lr_t, s2.self.m[1].at[key]),
                                    Add(Sqrt(s2.self.v[1].at[key]),
                                        s2.self.epsilon)))], key)

---------------------------------------------------------------------------
(* update: the loop over the keys of params *)

\* for key in params.keys(): the loop body of each class, left at the first
\* exception.
RECURSIVE SGD_loop(_, _, _)
RECURSIVE Momentum_loop(_, _, _)
RECURSIVE Nesterov_loop(_, _, _)
RECURSIVE AdaGrad_loop(_, _, _)
RECURSIVE RMSprop_loop(_, _, _)
RECURSIVE Adam_loop(_, _, _)
RECURSIVE SDprop_loop(_, _, _)
RECURSIVE Adastand_loop(_, _, _)

SGD_loop(st, ks, n) ==
    IF st.exc # "" \/ n > Len(ks) THEN st
    ELSE SGD_loop(SGD_step(st, ks[n]), ks, n + 1)

Momentum_loop(st, ks, n) ==
    IF st.exc # "" \/ n > Len(ks) THEN st
    ELSE Momentum_loop(Momentum_step(st, ks[n]), ks, n + 1)

Nesterov_loop(st, ks, n) ==
    IF st.exc # "" \/ n > Len(ks) THEN st
    ELSE Nesterov_loop(Nesterov_step(st, ks[n]), ks, n + 1)

AdaGrad_loop(st, ks, n) ==
    IF st.exc # "" \/ n > Len(ks) THEN st
    ELSE AdaGrad_loop(AdaGrad_step(st, ks[n]), ks, n + 1)

RMSprop_loop(st, ks, n) ==
    IF st.exc # "" \/ n > Len(ks) THEN st
    ELSE RMSprop_loop(RMSprop_step(st, ks[n]), ks, n + 1)

Adam_loop(st, ks, n) ==
    IF st.exc # "" \/ n > Len(ks) THEN st
    ELSE Adam_loop(Adam_step(st, ks[n]), ks, n + 1)

SDprop_loop(st, ks, n) ==
    IF st.exc # "" \/ n > Len(ks) THEN st
    ELSE SDprop_loop(SDprop_step(st, ks[n]), ks, n + 1)

Adastand_loop(st, ks, n) ==
    IF st.exc # "" \/ n > Len(ks) THEN st
    ELSE Adastand_loop(Adastand_step(st, ks[n]), ks, n + 1)

SGD_run(self, params, grads) ==
    SGD_loop(Enter(self, params, grads), params.ks, 1)

Momentum_run(self, params, grads) ==
    Momentum_loop(Enter(Momentum_lazy(self, params), params, grads),
            params.ks, 1)

Nesterov_run(self, params, grads) ==
    Nesterov_loop(Enter(Nesterov_lazy(self, params), params, grads),
            params.ks, 1)

AdaGrad_run(self, params, grads) ==
    AdaGrad_loop(Enter(AdaGrad_lazy(self, params), params, grads),
            params.ks, 1)

RMSprop_run(self, params, grads) ==
    RMSprop_loop(Enter(RMSprop_lazy(self, params), params, grads),
            params.ks, 1)

Adam_run(self, params, grads) ==
    LET s0 == Adam_tick(Adam_lazy(self, params))
    IN  Adam_loop([Enter(s0, params, grads) EXCEPT !.t = s0.iter, !.lr_t = Adam_lr_t(s0)],
                params.ks, 1)

SDprop_run(self, params, grads) ==
    LET s0 == SDprop_tick(SDprop_lazy(self, params))
        e0 == Enter(s0, params, grads)
    IN  SDprop_loop(IF s0.bs = TRUE
                THEN [e0 EXCEPT !.t = s0.iter, !.lr_t = SDprop_lr_t(s0)] ELSE e0,
                params.ks, 1)

Adastand_run(self, params, grads) ==
    LET s0 == Adastand_tick(Adastand_lazy(self, params))
    IN  Adastand_loop([Enter(s0, params, grads) EXCEPT !.t = s0.iter,
                                                 !.lr_t = Adastand_lr_t(s0)],
                params.ks, 1)

---------------------------------------------------------------------------
(* The callers: what they construct and what they pass to update *)

\* The parameter keys of the caller's model, in the order its dict holds them.
AllKeys == <<"W1", "b1">>
KeySet == {AllKeys[n] : n \in DOMAIN AllKeys}

\* The keys of K in the order of AllKeys.
RECURSIVE InOrder(_, _)
InOrder(K, n) ==
    IF n > Len(AllKeys) THEN <<>>
    ELSE (IF AllKeys[n] \in K THEN <<AllKeys[n]>> ELSE <<>>) \o InOrder(K, n + 1)

\* Constructor arguments: each class's defaults, and arguments outside the
\* domains the interface documents (the constructors take any value).
SGD_args == {F(1, -2), F(-1, -1)}
Momentum_args == {<<F(1, -2), F(9, -1)>>, <<F(1, -2), F(15, -1)>>}
Nesterov_args == {<<F(1, -2), F(9, -1)>>, <<F(1, -2), F(15, -1)>>}
AdaGrad_args == {F(1, -2), Zero}
RMSprop_args == {<<F(1, -3), F(99, -2)>>, <<F(1, -3), One>>}
Adam_args == {<<F(1, -3), F(9, -1), F(999, -3)>>, <<F(1, -3), One, F(999, -3)>>}
SDprop_args == {<<F(1, -3), F(99, -2), TRUE>>, <<F(1, -3), F(99, -2), FALSE>>,
                <<F(1, -3), F(15, -1), TRUE>>}
Adastand_args == {<<F(1, -3), F(7, -1), F(99, -2), F(1, -7)>>,
                  <<F(1, -3), F(7, -1), F(99, -2), Zero>>}

\* The caller's parameter tensors before any update, and the values a
\* gradient tensor takes.
InitTensors == [key \in KeySet |-> IF key = AllKeys[1] THEN F(5, -1) ELSE F(-2, -1)]
GradVals == {Zero, One}

\* The dicts over the keys K with values in V.
DictsOver(K, V) == {[ks |-> InOrder(K, 1), at |-> f] : f \in [K -> V]}

GradDicts == UNION {DictsOver(K, GradVals) : K \in SUBSET KeySet}

\* One update call's input: the keys of the params dict passed (the caller
\* builds the dict from its tensors) and the grads dict.
AllInputs ==
    {[ks |-> InOrder(K, 1), grads |-> g] :
        K \in (SUBSET KeySet) \ {{}}, g \in GradDicts}

\* Two instances driven alike are given the whole model every time.
PairInputs == {inp \in AllInputs : inp.ks = AllKeys}

---------------------------------------------------------------------------
(* Instances and their callers *)

Insts == IF pair THEN {1, 2} ELSE {1}
Slots == {1, 2}

NoInstance == [cls |-> "none"]
NoCall == [status |-> "none"]

InitWith(p) ==
    /\ pair = p
    /\ opt = [i \in Slots |-> NoInstance]
    /\ made = [i \in Slots |-> None]
    /\ tensors = [i \in Slots |-> InitTensors]
    /\ argParams = [i \in Slots |-> EmptyDict]
    /\ argGrads = [i \in Slots |-> EmptyDict]
    /\ last = [i \in Slots |-> NoCall]
    /\ ncalls = [i \in Slots |-> 0]
    /\ traj = [i \in Slots |-> <<>>]
    /\ feed = <<>>

Init == InitWith(FALSE)
InitPair == InitWith(TRUE)

\* __init__ stores its arguments and returns; under pair the second instance
\* is built with the arguments of the first.
Construct(i, self) ==
    /\ opt[i] = NoInstance
    /\ \A j \in Insts : made[j] # None => made[j] = Some(self)
    /\ opt' = [opt EXCEPT ![i] = self]
    /\ made' = [made EXCEPT ![i] = Some(self)]
    /\ UNCHANGED <<pair, tensors, argParams, argGrads, last, ncalls, traj, feed>>

\* The inputs the caller may pass to i's next call: under pair the call
\* number n of either instance gets the same input.
Offered(i) ==
    IF ncalls[i] < Len(feed) THEN {feed[ncalls[i] + 1]}
    ELSE IF pair THEN PairInputs ELSE AllInputs

\* The params dict the caller passes: its tensors for the keys ks.
Passed(i, inp) ==
    [ks |-> inp.ks, at |-> [key \in {inp.ks[n] : n \in DOMAIN inp.ks} |-> tensors[i][key]]]

CanCall(i, cls) == i \in Insts /\ opt[i].cls = cls /\ ncalls[i] < MaxCalls

\* What an update call that ended in st leaves: self and the caller's
\* tensors as mutated in place, when it returned and when it raised.
Call(i, inp, st) ==
    /\ opt' = [opt EXCEPT ![i] = st.self]
    /\ tensors' = [tensors EXCEPT ![i] =
                      [key \in KeySet |-> IF Has(st.params, key)
                                          THEN st.params.at[key] ELSE @[key]]]
    /\ argParams' = [argParams EXCEPT ![i] = st.params]
    /\ argGrads' = [argGrads EXCEPT ![i] = st.grads]
    /\ last' = [last EXCEPT ![i] =
                   [status |-> IF st.exc = "" THEN "returned" ELSE st.exc,
                    self0 |-> opt[i], params0 |-> Passed(i, inp),
                    grads0 |-> inp.grads, stepped |-> st.stepped]]
    /\ ncalls' = [ncalls EXCEPT ![i] = @ + 1]
    /\ traj' = [traj EXCEPT ![i] = Append(@, tensors'[i])]
    /\ feed' = IF ncalls[i] < Len(feed) THEN feed ELSE Append(feed, inp)
    /\ UNCHANGED <<pair, made>>

SGD_init(i) ==
    /\ i \in Insts
    /\ \E lr \in SGD_args : Construct(i, SGD_new(lr))

SGD_update(i) ==
    /\ CanCall(i, "SGD")
    /\ \E inp \in Offered(i) : Call(i, inp, SGD_run(opt[i], Passed(i, inp), inp.grads))

Momentum_init(i) ==
    /\ i \in Insts
    /\ \E a \in Momentum_args : Construct(i, Momentum_new(a[1], a[2]))

Momentum_update(i) ==
    /\ CanCall(i, "Momentum")
    /\ \E inp \in Offered(i) :
          Call(i, inp, Momentum_run(opt[i], Passed(i, inp), inp.grads))

Nesterov_init(i) ==
    /\ i \in Insts
    /\ \E a \in Nesterov_args : Construct(i, Nesterov_new(a[1], a[2]))

Nesterov_update(i) ==
    /\ CanCall(i, "Nesterov")
    /\ \E inp \in Offered(i) :
          Call(i, inp, Nesterov_run(opt[i], Passed(i, inp), inp.grads))

AdaGrad_init(i) ==
    /\ i \in Insts
    /\ \E lr \in AdaGrad_args : Construct(i, AdaGrad_new(lr))

AdaGrad_update(i) ==
    /\ CanCall(i, "AdaGrad")
    /\ \E inp \in Offered(i) :
          Call(i, inp, AdaGrad_run(opt[i], Passed(i, inp), inp.grads))

RMSprop_init(i) ==
    /\ i \in Insts
    /\ \E a \in RMSprop_args : Construct(i, RMSprop_new(a[1], a[2]))

RMSprop_update(i) ==
    /\ CanCall(i, "RMSprop")
    /\ \E inp \in Offered(i) :
          Call(i, inp, RMSprop_run(opt[i], Passed(i, inp), inp.grads))

Adam_init(i) ==
    /\ i \in Insts
    /\ \E a \in Adam_args : Construct(i, Adam_new(a[1], a[2], a[3]))

Adam_update(i) ==
    /\ CanCall(i, "Adam")
    /\ \E inp \in Offered(i) : Call(i, inp, Adam_run(opt[i], Passed(i, inp), inp.grads))

SDprop_init(i) ==
    /\ i \in Insts
    /\ \E a \in SDprop_args : Construct(i, SDprop_new(a[1], a[2], a[3]))

SDprop_update(i) ==
    /\ CanCall(i, "SDprop")
    /\ \E inp \in Offered(i) :
          Call(i, inp, SDprop_run(opt[i], Passed(i, inp), inp.grads))

Adastand_init(i) ==
    /\ i \in Insts
    /\ \E a \in Adastand_args : Construct(i, Adastand_new(a[1], a[2], a[3], a[4]))

Adastand_update(i) ==
    /\ CanCall(i, "Adastand")
    /\ \E inp \in Offered(i) :
          Call(i, inp, Adastand_run(opt[i], Passed(i, inp), inp.grads))

Next ==
    \E i \in Slots :
        \/ SGD_init(i)      \/ SGD_update(i)
        \/ Momentum_init(i) \/ Momentum_update(i)
        \/ Nesterov_init(i) \/ Nesterov_update(i)
        \/ AdaGrad_init(i)  \/ AdaGrad_update(i)
        \/ RMSprop_init(i)  \/ RMSprop_update(i)
        \/ Adam_init(i)     \/ Adam_update(i)
        \/ SDprop_init(i)   \/ SDprop_update(i)
        \/ Adastand_init(i) \/ Adastand_update(i)

\* One instance and its caller.
Spec == Init /\ [][Next]_vars

\* Two instances of one class built with the same arguments, each with a
\* caller of its own holding the same tensors and passing the same inputs,
\* their calls interleaved in any order.
SpecPair == InitPair /\ [][Next]_vars

---------------------------------------------------------------------------
(* Properties *)

KeysOf(d) == DOMAIN d.at

Called(i) == last[i].status # "none"
Returned(i) == last[i].status = "returned"
Failed(i) == Called(i) /\ ~Returned(i)

\* The keys whose parameter the last call of i wrote.
SteppedKeys(i) == {last[i].stepped[n].key : n \in DOMAIN last[i].stepped}

\* The accumulator attributes of an instance, <<>> for a class without any.
Accs(self) ==
    CASE self.cls \in {"Momentum", "Nesterov"} -> <<self.v>>
      [] self.cls \in {"AdaGrad", "RMSprop"} -> <<self.h>>
      [] self.cls \in {"Adam", "Adastand"} -> <<self.m, self.v>>
      [] self.cls = "SDprop" -> <<self.m, self.c>>
      [] OTHER -> <<>>

Stateful(self) == Accs(self) # <<>>

\* The value an accumulator attribute holds for key: zero while unset.
Old(acc, key) == IF acc = None THEN Zero ELSE acc[1].at[key]

\* C1: an update call whose grads has the key set of its params and that
\* returns leaves params with the keys it had, in the order it had them, and
\* leaves every entry of grads as it was.
C1_FrameOnReturn ==
    \A i \in Insts :
        (Returned(i) /\ KeysOf(last[i].grads0) = KeysOf(last[i].params0)) =>
            /\ KeysOf(argParams[i]) = KeysOf(last[i].params0)
            /\ argParams[i].ks = last[i].params0.ks
            /\ argGrads[i] = last[i].grads0

\* A call on both keys with nonzero gradients returned and moved the parameters.
C1_Witness ==
    \E i \in Insts :
        /\ Returned(i)
        /\ KeysOf(last[i].grads0) = KeySet /\ KeysOf(last[i].params0) = KeySet
        /\ \A key \in KeySet : last[i].grads0.at[key] # Zero
        /\ \A key \in KeySet : argParams[i].at[key] # last[i].params0.at[key]

\* C2: an update call that fails leaves every entry of params as it was
\* before the call.
C2_AtomicOnFailure ==
    \A i \in Insts : Failed(i) => argParams[i] = last[i].params0

\* C3: an update call whose grads has a key set other than that of its
\* params fails.
C3_KeyMismatchFails ==
    \A i \in Insts :
        (Called(i) /\ KeysOf(last[i].grads0) # KeysOf(last[i].params0)) => Failed(i)

\* C4: once the accumulators exist for a key set, an update call whose
\* params has another key set fails.
C4_StateMismatchFails ==
    \A i \in Insts :
        (/\ Called(i)
         /\ Stateful(last[i].self0)
         /\ Accs(last[i].self0)[1] # None
         /\ KeysOf(last[i].params0) # KeysOf(Accs(last[i].self0)[1][1])) => Failed(i)

\* The classes and configurations with an iteration counter in use.
Counting(self) ==
    \/ self.cls \in {"Adam", "Adastand"}
    \/ self.cls = "SDprop" /\ self.bs = TRUE

\* C5: the counter of Adam, Adastand and SDprop with bias correction is the
\* number of update calls made on the instance (0 at first, one more per
\* call whatever the number of keys, calls that fail included), and every
\* key's step of the n-th call used the counter value n; without bias
\* correction SDprop's counter stays 0.
C5_IterationCounter ==
    \A i \in Insts :
        /\ Counting(opt[i]) =>
              /\ opt[i].iter = ncalls[i]
              /\ Called(i) => \A n \in DOMAIN last[i].stepped :
                                  last[i].stepped[n].t = ncalls[i]
        /\ (opt[i].cls = "SDprop" /\ opt[i].bs = FALSE) => opt[i].iter = 0

\* A second call on a counting instance stepped both keys.
C5_Witness ==
    \E i \in Insts :
        /\ Counting(opt[i])
        /\ ncalls[i] >= 2
        /\ Returned(i)
        /\ SteppedKeys(i) = KeySet

\* The documented domains: lr > 0, and momentum, decay_rate, beta1, beta2
\* and gamma in [0, 1).
Positive(x) == ~IsNaN(x) /\ x.m > 0
InUnit(x) == IsFin(x) /\ x.m >= 0 /\ Sub(x, One).m < 0

InDomain(self) ==
    /\ Positive(self.lr)
    /\ self.cls \in {"Momentum", "Nesterov"} => InUnit(self.momentum)
    /\ self.cls = "RMSprop" => InUnit(self.decay_rate)
    /\ self.cls \in {"Adam", "Adastand"} => InUnit(self.beta1) /\ InUnit(self.beta2)
    /\ self.cls = "SDprop" => InUnit(self.gamma)

\* C6: the first update call on an instance, with a zero gradient for every
\* key of params, leaves every entry of params as it was.
C6_ZeroGradientFixedPoint ==
    \A i \in Insts :
        (/\ Called(i)
         /\ ncalls[i] = 1
         /\ KeysOf(last[i].grads0) = KeysOf(last[i].params0)
         /\ \A key \in KeysOf(last[i].grads0) : last[i].grads0.at[key] = Zero)
        => argParams[i] = last[i].params0

\* C8: no instance built with a hyperparameter outside its documented
\* domain has had an update call.
C8_ConfigValidated ==
    \A i \in Insts : Called(i) => InDomain(made[i][1])

\* SDprop's recurrence for one key, from the mean, the covariance estimate
\* and the parameter as they were before the step.
SDprop_c_new(gamma, c_old, m_old, g) ==
    Add(Mul(gamma, c_old), Mul(Mul(gamma, Sub(One, gamma)), Sq(Sub(g, m_old))))

SDprop_m_new(gamma, m_old, g) == Add(Mul(gamma, m_old), Mul(Sub(One, gamma), g))

SDprop_rate(self) ==
    IF self.bs = TRUE
    THEN Mul(self.lr, Sqrt(Sub(One, Pow(self.gamma, self.iter)))) ELSE self.lr

\* C9: for every key an SDprop update call stepped, the covariance estimate
\* is gamma*c_old + gamma*(1-gamma)*(grad - m_old)^2 with m_old the mean
\* before the call, the mean is gamma*m_old + (1-gamma)*grad, and the
\* parameter moved by rate*grad / (sqrt(c_new) + 1e-8).
C9_SDpropReadsOldMean ==
    \A i \in Insts :
        (Called(i) /\ opt[i].cls = "SDprop") =>
            \A key \in SteppedKeys(i) :
                LET self0 == last[i].self0
                    g     == last[i].grads0.at[key]
                    m_old == Old(self0.m, key)
                    c_new == SDprop_c_new(self0.gamma, Old(self0.c, key), m_old, g)
                IN  /\ opt[i].c[1].at[key] = c_new
                    /\ opt[i].m[1].at[key] = SDprop_m_new(self0.gamma, m_old, g)
                    /\ argParams[i].at[key] =
                          Sub(last[i].params0.at[key],
                              Div(Mul(SDprop_rate(opt[i]), g), Add(Sqrt(c_new), Eps8)))

\* A second SDprop call stepped a key whose mean was not zero, with a
\* gradient other than that mean.
C9_Witness ==
    \E i \in Insts :
        /\ opt[i].cls = "SDprop"
        /\ ncalls[i] >= 2
        /\ \E key \in SteppedKeys(i) :
              /\ Old(last[i].self0.m, key) # Zero
              /\ last[i].grads0.at[key] # Zero
              /\ last[i].grads0.at[key] # Old(last[i].self0.m, key)

\* The accumulators one step of each class leaves for a key, from the
\* accumulators old (None, or the instance's before the call) and the
\* gradient g, in the order of Accs.
Recurrence(self, key, g) ==
    LET a == Accs(self)
    IN  CASE self.cls \in {"Momentum", "Nesterov"} ->
               <<Sub(Mul(self.momentum, Old(a[1], key)), Mul(self.lr, g))>>
          [] self.cls = "AdaGrad" -> <<Add(Old(a[1], key), Mul(g, g))>>
          [] self.cls = "RMSprop" ->
               <<Add(Mul(self.decay_rate, Old(a[1], key)),
                     Mul(Mul(Sub(One, self.decay_rate), g), g))>>
          [] self.cls = "Adam" ->
               <<Add(Old(a[1], key), Mul(Sub(One, self.beta1), Sub(g, Old(a[1], key)))),
                 Add(Old(a[2], key),
                     Mul(Sub(One, self.beta2), Sub(Sq(g), Old(a[2], key))))>>
          [] self.cls = "SDprop" ->
               <<SDprop_m_new(self.gamma, Old(a[1], key), g),
                 SDprop_c_new(self.gamma, Old(a[2], key), Old(a[1], key), g)>>
          [] self.cls = "Adastand" ->
               <<Add(Old(a[1], key),
                     Mul(Sub(One, self.beta1), Sub(g, Mul(Two, Old(a[1], key))))),
                 Add(Old(a[2], key),
                     Mul(Sub(One, self.beta2),
                         Sub(Mul(self.beta2, Sq(Sub(g, Old(a[1], key)))),
                             Old(a[2], key))))>>

\* The key at which the last call of i raised.
FailedKey(i) == last[i].params0.ks[Len(last[i].stepped) + 1]

\* C10: the accumulators are unset until the first update call; from then
\* on they are set, with the keys of the first call's params; every key a
\* call stepped holds the recurrence applied to the value the call found
\* (zero in the first call), and every key a call did not reach holds the
\* value the call found (zero in the first call).
C10_LazyStateLifecycle ==
    \A i \in Insts :
        Stateful(opt[i]) =>
            \A n \in DOMAIN Accs(opt[i]) :
                LET acc == Accs(opt[i])[n]
                    old == Accs(last[i].self0)[n]
                IN  IF ncalls[i] = 0 THEN acc = None
                    ELSE /\ acc # None
                         /\ KeysOf(acc[1]) = {feed[1].ks[j] : j \in DOMAIN feed[1].ks}
                         /\ \A key \in KeysOf(acc[1]) :
                               IF key \in SteppedKeys(i)
                               THEN acc[1].at[key] =
                                       Recurrence(last[i].self0, key,
                                                  last[i].grads0.at[key])[n]
                               ELSE (Failed(i) /\ key = FailedKey(i))
                                    \/ acc[1].at[key] = Old(old, key)

\* A second call stepped a key from a nonzero accumulator, with a nonzero
\* gradient, to another nonzero value.
C10_Witness ==
    \E i \in Insts :
        /\ Stateful(opt[i])
        /\ ncalls[i] >= 2
        /\ \E key \in SteppedKeys(i) :
              /\ last[i].grads0.at[key] # Zero
              /\ Old(Accs(last[i].self0)[1], key) # Zero
              /\ Accs(opt[i])[1][1].at[key] # Old(Accs(last[i].self0)[1], key)

\* C7: two instances of one class built with the same arguments, whose
\* callers start from the same tensors and pass the same inputs, leave the
\* same tensors after every call number both have reached, and are equal
\* whenever they have had the same number of calls, in whatever order
\* their calls were made.
C7_Determinism ==
    /\ \A n \in 1..MaxCalls :
          (n <= Len(traj[1]) /\ n <= Len(traj[2])) => traj[1][n] = traj[2][n]
    /\ (made[1] # None /\ made[2] # None /\ ncalls[1] = ncalls[2]) =>
          opt[1] = opt[2] /\ tensors[1] = tensors[2]

\* Both instances have had two calls, the first of which moved every
\* tensor and left accumulators for the second to start from.
C7_Witness ==
    /\ pair
    /\ ncalls[1] >= 2 /\ ncalls[2] >= 2
    /\ Stateful(opt[1])
    /\ \A key \in KeySet : traj[1][1][key] # InitTensors[key]
    /\ \A key \in KeySet : traj[2][2][key] # traj[2][1][key]

===========================================================================
